---- MODULE Spec2Model ----
(***************************************************************************)
(* PIPlot: PI_plot (chart renderer) and create_pi_attributes (metadata     *)
(* factory), modelled from src/PIPlot/PIPlot.py.                           *)
(*                                                                         *)
(* One call of PI_plot is a run of the state machine Spec: the entry, the  *)
(* unit-discovery pass, the unit-count check, one step per plotted tag,    *)
(* the per-branch finish, the optional persistence and the return.  The    *)
(* matplotlib objects the call touches are records in the heap `axs`.      *)
(* SpecAttr applies create_pi_attributes to bounded inputs.                *)
(*                                                                         *)
(* Conventions: lengths and positions that the code holds as fractions are *)
(* held as integers (alpha and axes fractions in percent, box widths in    *)
(* thousandths of the figure width).  A string is a TLA+ string; where the *)
(* code scans a string (str.split) the string is held as its sequence of   *)
(* pieces, each piece a space-free name or a single " ".                   *)
(***************************************************************************)
EXTENDS Integers, Sequences, FiniteSets, TLC

VARIABLES
    pc,          \* position of the call in PI_plot
    exc,         \* the exception the call ended with ("" while none)
    ax_arg,      \* the ax argument as passed: None or "given"
    tags,        \* local tags after tags.split(' ')
    tagunits,    \* local tagunits: insertion-ordered dict, as <<[tag, unit], ...>>
    n_units,     \* local n_units (0 while unbound)
    units,       \* local units
    ax,          \* local ax: index into axs, 0 for None
    axes,        \* local axes: list of indices into axs (<<>> while unbound)
    axs,         \* the Axes objects that exist, by identity
    fig_bound,   \* whether the local name fig is bound
    fig,         \* the figure: created by this call?, subplot right, tight_layout
    lines,       \* local lines
    labels,      \* local labels
    i,           \* position of the running for-loop over tags (1-based)
    savefig,     \* argument savefig, once read
    folder,      \* argument folder, once read
    figname,     \* local/argument figname, once read
    fignamepdf,  \* local fignamepdf (Unbound while unbound)
    fignamepng,  \* local fignamepng
    df_index,    \* <<df.index[0], df.index[-1]>>, once read
    df_reads,    \* the names looked up on df with getattr, in order
    stdout,      \* lines printed
    files,       \* names of the files written
    result,      \* the returned value
    attr_pc,     \* position of the create_pi_attributes call
    attr_tag,    \* its tag argument
    attr_kwargs, \* its keyword overrides
    piattr       \* its returned dict

vars == <<pc, exc, ax_arg, tags, tagunits, n_units, units, ax, axes, axs,
          fig_bound, fig, lines, labels, i, savefig, folder, figname,
          fignamepdf, fignamepng, df_index, df_reads, stdout, files, result,
          attr_pc, attr_tag, attr_kwargs, piattr>>

plotvars == <<pc, exc, ax_arg, tags, tagunits, n_units, units, ax, axes, axs,
              fig_bound, fig, lines, labels, i, savefig, folder, figname,
              fignamepdf, fignamepng, df_index, df_reads, stdout, files, result>>

attrvars == <<attr_pc, attr_tag, attr_kwargs, piattr>>

(***************************************************************************)
(* Bounds and input domains                                                *)
(***************************************************************************)
MaxTags == 4

None == "None"
Unbound == "<unbound>"

\* create_pi_attributes: the fixed schema
keys ==
    {"descriptor", "exdesc", "typicalvalue", "engunits", "zero", "span",
     "pointtype", "pointsource", "scan", "excmin", "excmax", "excdev",
     "shutdown", "archiving", "compressing", "step", "compmin",
     "compmax", "compdev", "creationdate", "creator", "changedate",
     "changer", "displaydigits", "location1", "location2", "location3",
     "location4", "location5", "filtercode", "squareroot", "totalcode",
     "convers", "srcptid", "instrumenttag", "userint1", "userint2",
     "userreal1", "userreal2", "ptowner", "ptgroup", "ptaccess",
     "ptsecurity", "dataowner", "datagroup", "dataaccess",
     "datasecurity", "pointid", "recno", "ptclassname", "ptclassid",
     "ptclassrev", "tag", "sourcetag", "digitalset", "compdevpercent",
     "excdevpercent"}

\* a variant that stores the tag argument under the key 'tag'
create_pi_attributes_tagged(tag, kwargs) ==
    [k \in keys \cup DOMAIN kwargs |->
        IF k \in DOMAIN kwargs THEN kwargs[k]
        ELSE IF k = "tag" THEN tag ELSE ""]

\* piattr = {k: '' for k in keys}; piattr[k] = v for the overrides
create_pi_attributes(tag, kwargs) ==
    [k \in keys \cup DOMAIN kwargs |->
        IF k \in DOMAIN kwargs THEN kwargs[k] ELSE ""]

\* Inputs of create_pi_attributes
AttrTags == {"VI290003X", "VI290003Y"}
OverrideKeys == {"engunits", "tag", "descriptor", "plant"}
OverrideValues == {"", "PSI", "VI290003X"}
KwargsSet == UNION {[S -> OverrideValues] : S \in SUBSET OverrideKeys}

\* The tag names a selector is made of.  "" is the name that leading,
\* trailing or doubled spaces produce.
TagNames == {"VX", "VY", "TI", "PI", "SI", "ZI", "FI", "index", ""}

\* The argument PIAttributes: tag -> attribute dict, built the way the
\* module's own factory builds it.
EngUnits ==
    [t \in {"VX", "VY", "TI", "PI", "SI", "ZI", "index"} |->
        CASE t = "VX" -> "mm/s"
          [] t = "VY" -> "mm/s"
          [] t = "TI" -> "degC"
          [] t = "PI" -> "bar"
          [] t = "SI" -> "rpm"
          [] t = "ZI" -> "mm/s"
          [] t = "index" -> "rpm"]

PIAttributes ==
    [t \in DOMAIN EngUnits |-> create_pi_attributes(t, [engunits |-> EngUnits[t]])]

\* The argument df: its columns, and the names that are attributes of every
\* DataFrame (getattr resolves them whether or not a column has the name).
\* The columns are PI point names, none of them a DataFrame attribute, and df
\* has at least one row, so df.index[0] and df.index[-1] exist.
Columns == {"VX", "VY", "TI", "PI", "SI", "FI"}
DataFrameAttrs == {"index"}

Timestamp(d, m, y, h) == [day |-> d, month |-> m, year |-> y, hour |-> h]

\* <<df.index[0], df.index[-1]>>
DfIndexChoices ==
    { <<Timestamp(5, 3, 2020, 8), Timestamp(5, 3, 2020, 17)>>,
      <<Timestamp(5, 3, 2020, 8), Timestamp(6, 3, 2020, 17)>>,
      <<Timestamp(5, 3, 2020, 8), Timestamp(5, 4, 2020, 17)>>,
      <<Timestamp(5, 3, 2020, 8), Timestamp(5, 3, 2021, 17)>> }
NoIndex == <<>>

\* The arguments figname and folder of a call that asks for persistence
\* (folder is a string there: folder + figname is a string concatenation)
FigNames == {"trend"}
Folders == {"out/"}

(***************************************************************************)
(* Strings and lists                                                       *)
(***************************************************************************)
\* ' '.join(names) as the pieces of the selector string
RECURSIVE Selector(_)
Selector(names) ==
    IF Len(names) = 1 THEN <<names[1]>>
    ELSE <<names[1], " ">> \o Selector(Tail(names))

\* str.split(' ') over the pieces of a string: a " " closes the current
\* word (possibly empty), anything else extends it
RECURSIVE split_from(_, _, _)
split_from(pieces, done, word) ==
    IF pieces = <<>> THEN Append(done, word)
    ELSE IF Head(pieces) = " "
         THEN split_from(Tail(pieces), Append(done, word), "")
         ELSE split_from(Tail(pieces), done, word \o Head(pieces))

split(pieces) == split_from(pieces, <<>>, "")

\* sep.join(strs)
RECURSIVE join(_, _)
join(sep, strs) ==
    IF strs = <<>> THEN ""
    ELSE IF Len(strs) = 1 THEN strs[1]
    ELSE strs[1] \o sep \o join(sep, Tail(strs))

str(n) == ToString(n)

\* a variant that answers position 0 whatever is asked
index_zero(seq, x) == 0

\* list.index(x), 0-based; x is in seq wherever the code calls it
index(seq, x) == (CHOOSE k \in 1..Len(seq) : seq[k] = x /\ \A j \in 1..(k - 1) : seq[j] # x) - 1

\* the selectors: 1..MaxTags names joined by single spaces
TagLists == UNION {[1..n -> TagNames] : n \in 1..MaxTags}

(***************************************************************************)
(* matplotlib objects                                                      *)
(***************************************************************************)
\* A Line2D as ax.plot leaves it
Line(label, linestyle, alpha, color) ==
    [label |-> label, linestyle |-> linestyle, alpha |-> alpha, color |-> color]

\* A fresh Axes under the module's style ('axes.grid': True)
NewAxes(width) ==
    [ylabel |-> "", xlabel |-> "", lines |-> <<>>, nextcolor |-> 0,
     grid |-> TRUE, haslegend |-> FALSE, legend |-> <<>>, legend_anchor |-> <<>>,
     width |-> width, spine_right |-> 100, frame_on |-> TRUE,
     patch_visible |-> TRUE, twin_of |-> 0]

\* plt.subplots(figsize=(16, 8)): one Axes over the default subplot width
SubplotsAxes == NewAxes(775)

\* An Axes a caller passes in: from another figure, one line already on it
GivenAxes ==
    [NewAxes(500) EXCEPT !.lines = <<Line("old", "-", 100, 0)>>, !.nextcolor = 1]

AxArgs == {None, "given"}

NoFigure == [created |-> FALSE, right |-> 900, tight |-> FALSE]

\* ax.twinx(): a new Axes over the same box, x shared, patch hidden
twinx(a, id) ==
    [NewAxes(a.width) EXCEPT !.patch_visible = FALSE, !.twin_of = id]

\* ax.plot(series, label=, linestyle=, alpha=, color=)
plot(a, label, linestyle, alpha, color) ==
    [a EXCEPT !.lines = Append(@, Line(label, linestyle, alpha, color))]

\* ax.plot(...) without color=: the Axes' own color cycle gives it and advances
plot_cycle(a, label, linestyle, alpha) ==
    [plot(a, label, linestyle, alpha, a.nextcolor) EXCEPT !.nextcolor = @ + 1]

set_ylabel(a, s) == [a EXCEPT !.ylabel = s]
set_xlabel(a, s) == [a EXCEPT !.xlabel = s]
grid_off(a) == [a EXCEPT !.grid = FALSE]

\* a variant that draws no legend
legend_skip(a) == a

\* ax.legend(): one entry per line on the Axes, default placement
legend_auto(a) ==
    [a EXCEPT !.haslegend = TRUE,
              !.legend = [k \in 1..Len(a.lines) |-> a.lines[k].label],
              !.legend_anchor = <<>>]

\* ax.legend(lines, labels, loc='center left', bbox_to_anchor=anchor)
legend_of(a, lbls, anchor) ==
    [a EXCEPT !.haslegend = TRUE, !.legend = lbls, !.legend_anchor = anchor]

\* getattr(df, tag)
getattr_df(tag) ==
    IF tag \in DataFrameAttrs THEN "attribute"
    ELSE IF tag \in Columns THEN "series"
    ELSE "AttributeError"

\* PIAttributes[tag]['engunits'] raises KeyError
NoUnit(tag) ==
    \/ tag \notin DOMAIN PIAttributes
    \/ "engunits" \notin DOMAIN PIAttributes[tag]

\* for tag in tags: if not PIAttributes[tag]['engunits'] in tagunits.values(): ...
RECURSIVE discover(_, _)
discover(ts, tu) ==
    IF ts = <<>> THEN [err |-> "", tagunits |-> tu]
    ELSE IF NoUnit(Head(ts)) THEN [err |-> "KeyError", tagunits |-> tu]
    ELSE LET u == PIAttributes[Head(ts)]["engunits"] IN
         IF \E k \in 1..Len(tu) : tu[k].unit = u
         THEN discover(Tail(ts), tu)
         ELSE discover(Tail(ts), Append(tu, [tag |-> Head(ts), unit |-> u]))

values(tu) == [k \in 1..Len(tu) |-> tu[k].unit]

MaxUnits == 3

NoResult == [kind |-> "none", axes |-> <<>>]

(***************************************************************************)
(* PI_plot                                                                 *)
(***************************************************************************)
Init ==
    /\ pc = "idle" /\ exc = "" /\ ax_arg = None
    /\ tags = <<>> /\ tagunits = <<>> /\ n_units = 0 /\ units = <<>>
    /\ ax = 0 /\ axes = <<>> /\ axs = <<>>
    /\ fig_bound = FALSE /\ fig = NoFigure
    /\ lines = <<>> /\ labels = <<>> /\ i = 0
    /\ savefig = FALSE /\ folder = None /\ figname = None
    /\ fignamepdf = Unbound /\ fignamepng = Unbound
    /\ df_index = NoIndex /\ df_reads = <<>>
    /\ stdout = <<>> /\ files = {} /\ result = NoResult
    /\ attr_pc = "idle" /\ attr_tag = "" /\ attr_kwargs = <<>> /\ piattr = <<>>

Raise(e) == pc' = "raised" /\ exc' = e

\* lines 41-44: the call, the default Axes, the split
Enter ==
    /\ pc = "idle"
    /\ \E names \in TagLists, a \in AxArgs :
        /\ ax_arg' = a
        /\ IF a = None
           THEN /\ fig_bound' = TRUE
                /\ fig' = [fig EXCEPT !.created = TRUE]
                /\ axs' = <<SubplotsAxes>>
           ELSE /\ fig_bound' = FALSE
                /\ fig' = fig
                /\ axs' = <<GivenAxes>>
        /\ ax' = 1
        /\ tags' = split(Selector(names))
    /\ tagunits' = <<>>
    /\ pc' = "discover"
    /\ UNCHANGED <<exc, n_units, units, axes, lines, labels, i, savefig, folder,
                   figname, fignamepdf, fignamepng, df_index, df_reads, stdout,
                   files, result>>
    /\ UNCHANGED attrvars

\* lines 47-51: the unit-discovery pass
Discover ==
    /\ pc = "discover"
    /\ LET d == discover(tags, tagunits) IN
        /\ tagunits' = d.tagunits
        /\ IF d.err # "" THEN Raise(d.err) ELSE pc' = "check" /\ exc' = exc
    /\ UNCHANGED <<ax_arg, tags, n_units, units, ax, axes, axs, fig_bound, fig,
                   lines, labels, i, savefig, folder, figname, fignamepdf,
                   fignamepng, df_index, df_reads, stdout, files, result>>
    /\ UNCHANGED attrvars

\* lines 53-59, 66: the unit count, the policy limit, the branch
Check ==
    /\ pc = "check"
    /\ n_units' = Len(tagunits)
    /\ units' = values(tagunits)
    /\ IF Len(tagunits) > MaxUnits
       THEN Raise("Exception: Cannot plot more than 3 units") /\ i' = i
       ELSE /\ exc' = exc
            /\ IF Len(tagunits) = 1
               THEN pc' = "plot1" /\ i' = 1
               ELSE pc' = "twin" /\ i' = i
    /\ UNCHANGED <<ax_arg, tags, tagunits, ax, axes, axs, fig_bound, fig, lines,
                   labels, savefig, folder, figname, fignamepdf, fignamepng,
                   df_index, df_reads, stdout, files, result>>
    /\ UNCHANGED attrvars

\* lines 60-65: one tag of the 1-unit loop
Plot1 ==
    /\ pc = "plot1"
    /\ i <= Len(tags)
    /\ df_reads' = Append(df_reads, tags[i])
    /\ IF getattr_df(tags[i]) = "AttributeError"
       THEN Raise("AttributeError") /\ UNCHANGED <<axs, i>>
       ELSE /\ axs' = [axs EXCEPT ![ax] =
                        legend_auto(set_xlabel(set_ylabel(
                            plot_cycle(@, tags[i], "-", 100), units[1]), "Time"))]
            /\ i' = i + 1
            /\ pc' = IF i = Len(tags) THEN "save" ELSE "plot1"
            /\ exc' = exc
    /\ UNCHANGED <<ax_arg, tags, tagunits, n_units, units, ax, axes, fig_bound,
                   fig, lines, labels, savefig, folder, figname, fignamepdf,
                   fignamepng, df_index, stdout, files, result>>
    /\ UNCHANGED attrvars

\* lines 67-68: the twin axes and the list axes
Twin ==
    /\ pc = "twin"
    /\ LET n == Len(tagunits) - 1 IN
        /\ axs' = axs \o [k \in 1..n |-> twinx(axs[ax], ax)]
        /\ axes' = <<ax>> \o [k \in 1..n |-> Len(axs) + k]
    /\ pc' = "labels"
    /\ UNCHANGED <<exc, ax_arg, tags, tagunits, n_units, units, ax, fig_bound,
                   fig, lines, labels, i, savefig, folder, figname, fignamepdf,
                   fignamepng, df_index, df_reads, stdout, files, result>>
    /\ UNCHANGED attrvars

\* for _ax, unit in zip(axes, tagunits.values()): _ax.set_ylabel(unit)
zip_set_ylabel(heap, axlist, us) ==
    [id \in 1..Len(heap) |->
        IF \E k \in 1..Len(axlist) : axlist[k] = id /\ k <= Len(us)
        THEN set_ylabel(heap[id], us[CHOOSE k \in 1..Len(axlist) : axlist[k] = id])
        ELSE heap[id]]

\* lines 70-77: the y-labels of the 2-unit branch
Labels2 ==
    /\ pc = "labels"
    /\ n_units = 2
    /\ axs' = zip_set_ylabel(axs, axes, values(tagunits))
    /\ lines' = <<>>
    /\ labels' = <<>>
    /\ i' = 1
    /\ pc' = "plot2"
    /\ UNCHANGED <<exc, ax_arg, tags, tagunits, n_units, units, ax, axes,
                   fig_bound, fig, savefig, folder, figname, fignamepdf,
                   fignamepng, df_index, df_reads, stdout, files, result>>
    /\ UNCHANGED attrvars

\* lines 78-90: one tag of the 2-unit loop
Plot2 ==
    /\ pc = "plot2"
    /\ i <= Len(tags)
    /\ LET tag == tags[i]
           unit == PIAttributes[tag]["engunits"]
           idx == index(units, unit)
           id == axes[idx + 1]
       IN
        /\ df_reads' = Append(df_reads, tag)
        /\ IF getattr_df(tag) = "AttributeError"
           THEN Raise("AttributeError") /\ UNCHANGED <<axs, lines, labels, i>>
           ELSE /\ axs' = [axs EXCEPT ![id] =
                            IF idx = 0
                            THEN set_xlabel(plot_cycle(@, tag, "-", 100), "Time")
                            ELSE grid_off(plot_cycle(@, tag, "--", 30))]
                /\ lines' = Append(lines, axs'[id].lines[Len(axs'[id].lines)])
                /\ labels' = Append(labels, axs'[id].lines[Len(axs'[id].lines)].label)
                /\ i' = i + 1
                /\ UNCHANGED <<pc, exc>>
    /\ UNCHANGED <<ax_arg, tags, tagunits, n_units, units, ax, axes, fig_bound,
                   fig, savefig, folder, figname, fignamepdf, fignamepng,
                   df_index, stdout, files, result>>
    /\ UNCHANGED attrvars

\* lines 91-93: the combined legend of the 2-unit branch
Finish2 ==
    /\ pc = "plot2"
    /\ i > Len(tags)
    /\ ax' = axes[1]
    /\ axs' = [axs EXCEPT ![axes[1]] = legend_of(@, labels, <<110, 50>>)]
    /\ pc' = "save"
    /\ UNCHANGED <<exc, ax_arg, tags, tagunits, n_units, units, axes, fig_bound,
                   fig, lines, labels, i, savefig, folder, figname, fignamepdf,
                   fignamepng, df_index, df_reads, stdout, files, result>>
    /\ UNCHANGED attrvars

\* lines 95-102: the y-labels of the 3-unit branch
Labels3 ==
    /\ pc = "labels"
    /\ n_units = 3
    /\ axs' = zip_set_ylabel(axs, axes, values(tagunits))
    /\ lines' = <<>>
    /\ labels' = <<>>
    /\ i' = 1
    /\ pc' = "plot3"
    /\ UNCHANGED <<exc, ax_arg, tags, tagunits, n_units, units, ax, axes,
                   fig_bound, fig, savefig, folder, figname, fignamepdf,
                   fignamepng, df_index, df_reads, stdout, files, result>>
    /\ UNCHANGED attrvars

\* lines 103-116: one tag of the 3-unit loop
Plot3 ==
    /\ pc = "plot3"
    /\ i <= Len(tags)
    /\ LET tag == tags[i]
           unit == PIAttributes[tag]["engunits"]
           idx == index(units, unit)
           id == axes[idx + 1]
           next_color == axs[axes[1]].nextcolor
           cycled == [axs EXCEPT ![axes[1]].nextcolor = @ + 1]
       IN
        /\ df_reads' = Append(df_reads, tag)
        /\ IF getattr_df(tag) = "AttributeError"
           THEN Raise("AttributeError") /\ UNCHANGED <<axs, lines, labels, i>>
           ELSE /\ axs' = [cycled EXCEPT ![id] =
                            IF idx = 0
                            THEN set_xlabel(plot(@, tag, "-", 100, next_color), "Time")
                            ELSE grid_off(plot(@, tag, "--", 50, next_color))]
                /\ lines' = Append(lines, axs'[id].lines[Len(axs'[id].lines)])
                /\ labels' = Append(labels, axs'[id].lines[Len(axs'[id].lines)].label)
                /\ i' = i + 1
                /\ UNCHANGED <<pc, exc>>
    /\ UNCHANGED <<ax_arg, tags, tagunits, n_units, units, ax, axes, fig_bound,
                   fig, savefig, folder, figname, fignamepdf, fignamepng,
                   df_index, stdout, files, result>>
    /\ UNCHANGED attrvars

\* ax.set_position(...): the box of the Axes and of the Axes twinned with it
set_position_width(heap, id, w) ==
    [k \in 1..Len(heap) |->
        IF k = id \/ heap[k].twin_of = id THEN [heap[k] EXCEPT !.width = w]
        ELSE heap[k]]

\* lines 117-131: the shrunk box, the legend, the margin, the outer spine
Finish3 ==
    /\ pc = "plot3"
    /\ i > Len(tags)
    /\ ax' = axes[1]
    /\ LET box == axs[axes[1]]
           shrunk == set_position_width(axs, axes[1], (box.width * 8) \div 10)
           legended == [shrunk EXCEPT ![axes[1]] = legend_of(@, labels, <<120, 50>>)]
           last == axes[Len(axes)]
       IN
        IF ~fig_bound
        THEN /\ axs' = legended
             /\ Raise("UnboundLocalError")
             /\ fig' = fig
        ELSE /\ fig' = [fig EXCEPT !.right = 750]
             /\ axs' = [legended EXCEPT ![last].spine_right = 110,
                                        ![last].frame_on = TRUE,
                                        ![last].patch_visible = FALSE]
             /\ pc' = "save"
             /\ exc' = exc
    /\ UNCHANGED <<ax_arg, tags, tagunits, n_units, units, axes, fig_bound,
                   lines, labels, i, savefig, folder, figname, fignamepdf,
                   fignamepng, df_index, df_reads, stdout, files, result>>
    /\ UNCHANGED attrvars

\* lines 136-142: the default file name
default_figname(start, end, ts) ==
    LET start_hour == IF ~(start.day = end.day) THEN "" ELSE "-" \o str(start.hour)
        end_hour == IF ~(start.day = end.day) THEN "" ELSE "-" \o str(end.hour)
    IN str(start.day) \o "-" \o str(start.month) \o "-" \o str(start.year) \o start_hour
       \o "-" \o str(end.day) \o "-" \o str(end.month) \o "-" \o str(end.year) \o end_hour
       \o "-" \o join("_", ts)

\* lines 133-149: the optional persistence
SaveFig ==
    /\ pc = "save"
    /\ \/ /\ savefig' = FALSE
          /\ pc' = "return"
          /\ UNCHANGED <<exc, folder, figname, fignamepdf, fignamepng, df_index,
                         stdout, fig, files>>
       \/ \E fold \in Folders, name \in FigNames :
          /\ savefig' = TRUE
          /\ folder' = fold
          /\ figname' = name
          /\ stdout' = Append(stdout, "Saving figure as " \o fold \o name)
          /\ fig' = [fig EXCEPT !.tight = TRUE]
          /\ Raise("UnboundLocalError")
          /\ UNCHANGED <<fignamepdf, fignamepng, df_index, files>>
       \/ \E fold \in Folders, idx \in DfIndexChoices :
          /\ savefig' = TRUE
          /\ folder' = fold
          /\ df_index' = idx
          /\ figname' = default_figname(idx[1], idx[2], tags)
          /\ fignamepdf' = figname' \o ".pdf"
          /\ fignamepng' = figname' \o ".png"
          /\ stdout' = Append(stdout, "Saving figure as " \o fold \o figname')
          /\ fig' = [fig EXCEPT !.tight = TRUE]
          /\ files' = files \cup {fold \o fignamepdf', fold \o fignamepng'}
          /\ pc' = "return"
          /\ exc' = exc
    /\ UNCHANGED <<ax_arg, tags, tagunits, n_units, units, ax, axes, axs,
                   fig_bound, lines, labels, i, df_reads, result>>
    /\ UNCHANGED attrvars

\* lines 151-154: the list of axes, or the single Axes
Return ==
    /\ pc = "return"
    /\ result' = IF n_units > 1 THEN [kind |-> "list", axes |-> axes]
                 ELSE [kind |-> "axes", axes |-> <<ax>>]
    /\ pc' = "returned"
    /\ UNCHANGED <<exc, ax_arg, tags, tagunits, n_units, units, ax, axes, axs,
                   fig_bound, fig, lines, labels, i, savefig, folder, figname,
                   fignamepdf, fignamepng, df_index, df_reads, stdout, files>>
    /\ UNCHANGED attrvars

Next ==
    \/ Enter
    \/ Discover
    \/ Check
    \/ Plot1
    \/ Twin
    \/ Labels2
    \/ Plot2
    \/ Finish2
    \/ Labels3
    \/ Plot3
    \/ Finish3
    \/ SaveFig
    \/ Return

Spec == Init /\ [][Next]_vars

(***************************************************************************)
(* create_pi_attributes                                                    *)
(***************************************************************************)
\* lines 157-187: one call of the factory
CreatePiAttributes ==
    /\ attr_pc = "idle"
    /\ \E tag \in AttrTags, kwargs \in KwargsSet :
        /\ attr_tag' = tag
        /\ attr_kwargs' = kwargs
        /\ piattr' = create_pi_attributes(tag, kwargs)
    /\ attr_pc' = "returned"
    /\ UNCHANGED plotvars

NextAttr == CreatePiAttributes

SpecAttr == Init /\ [][NextAttr]_vars

(***************************************************************************)
(* Vocabulary of the properties                                            *)
(***************************************************************************)
Entered == pc # "idle"
Ended == pc \in {"returned", "raised"}
PolicyError == "Exception: Cannot plot more than 3 units"

TagSet == {tags[k] : k \in 1..Len(tags)}
AllInMetadata == \A t \in TagSet : ~NoUnit(t)
AllInColumns == \A t \in TagSet : t \in Columns
unit_of(t) == PIAttributes[t]["engunits"]
ResolvableUnits == {unit_of(t) : t \in {u \in TagSet : ~NoUnit(u)}}

\* the primary Axes as it was when the call began
PrimaryAtEntry == IF ax_arg = None THEN SubplotsAxes ELSE GivenAxes

\* the lines this call has drawn on the Axes id
NewLines(id) ==
    LET old == IF id = 1 THEN Len(PrimaryAtEntry.lines) ELSE 0
    IN SubSeq(axs[id].lines, old + 1, Len(axs[id].lines))

LabelsOf(ls) == [k \in 1..Len(ls) |-> ls[k].label]

\* the tags the running loop has finished with
Processed == SubSeq(tags, 1, i - 1)

\* the positions of the selector at which a unit is seen for the first time
FirstSeen == {p \in 1..Len(tags) : \A q \in 1..(p - 1) : unit_of(tags[q]) # unit_of(tags[p])}

\* the tags of ts whose unit is u, in order
OfUnit(ts, u) ==
    LET Test(t) == unit_of(t) = u IN SelectSeq(ts, Test)

SameCalendarDay(s, e) == s.day = e.day /\ s.month = e.month /\ s.year = e.year

\* the default file name as the format of the specification gives it
CalendarFigname(s, e, ts) ==
    LET sh == IF SameCalendarDay(s, e) THEN "-" \o ToString(s.hour) ELSE ""
        eh == IF SameCalendarDay(s, e) THEN "-" \o ToString(e.hour) ELSE ""
    IN ToString(s.day) \o "-" \o ToString(s.month) \o "-" \o ToString(s.year) \o sh
       \o "-" \o ToString(e.day) \o "-" \o ToString(e.month) \o "-" \o ToString(e.year) \o eh
       \o "-" \o join("_", ts)

(***************************************************************************)
(* Properties                                                              *)
(***************************************************************************)
\* C1: a call whose tags, all in the metadata, span 4 or more units ends with
\* the policy error and has had no effect at all: no figure or Axes created,
\* the given Axes untouched, no file written, no column of df looked up.
\* (Stated for selectors whose tags are all columns of df.)
C1_PolicyNoSideEffect ==
    (Entered /\ AllInMetadata /\ AllInColumns /\ Cardinality(ResolvableUnits) >= 4
             /\ Ended) =>
        /\ pc = "raised" /\ exc = PolicyError
        /\ ~fig.created
        /\ axs = IF ax_arg = None THEN <<>> ELSE <<GivenAxes>>
        /\ files = {}
        /\ df_reads = <<>>

\* C2: a call whose tags, all in df and in the metadata, span exactly 3 units
\* returns the list of 3 axes, primary first, the last one's right spine at
\* 1.1 and the primary box at 0.8 of its original width, with ax given or not.
\* (Stated for the calls that ended without reaching a persistence request.)
C2_ThreeAxes ==
    (Entered /\ AllInMetadata /\ AllInColumns /\ Cardinality(ResolvableUnits) = 3
             /\ Ended /\ ~savefig) =>
        /\ pc = "returned"
        /\ result = [kind |-> "list", axes |-> <<1, 2, 3>>]
        /\ Len(axs) = 3 /\ axs[2].twin_of = 1 /\ axs[3].twin_of = 1
        /\ axs[3].spine_right = 110
        /\ axs[1].width * 10 = PrimaryAtEntry.width * 8

\* C3: when persistence is requested and the rendering succeeded the call
\* writes exactly folder+figname+'.pdf' and folder+figname+'.png', whether
\* figname was passed or derived; without persistence it writes nothing; the
\* files are written after all plotting and before the return.
\* (Stated for selectors whose tags are all columns of df.)
C3_TwoFiles ==
    /\ (pc \in {"return", "returned"} /\ ~savefig) => files = {}
    /\ files # {} => pc \in {"return", "returned"}
    /\ (savefig /\ Ended /\ AllInColumns) =>
        /\ pc = "returned"
        /\ files = {folder \o figname \o ".pdf", folder \o figname \o ".png"}

\* C4: the derived file name carries the two '-hour' suffixes exactly when the
\* first and last timestamps are on the same calendar day, and ends with the
\* tags joined by '_'.  (Stated for selectors whose tags are all columns.)
C4_HourSuffixSameCalendarDay ==
    (df_index # NoIndex /\ AllInColumns) =>
        figname = CalendarFigname(df_index[1], df_index[2], tags)

\* C5: a call whose tags, all in df and in the metadata, span exactly 2 units
\* returns the list of 2 axes; the lines on axis 1 are dashed with alpha 0.3,
\* those on axis 0 solid and opaque; axis 1 has no grid; the one legend, on
\* axis 0, lists the tags in selector order.
C5_TwoAxes ==
    (Entered /\ AllInMetadata /\ AllInColumns /\ Cardinality(ResolvableUnits) = 2
             /\ Ended) =>
        /\ pc = "returned"
        /\ result = [kind |-> "list", axes |-> <<1, 2>>]
        /\ Len(axs) = 2 /\ axs[2].twin_of = 1
        /\ \A k \in 1..Len(NewLines(2)) :
              NewLines(2)[k].linestyle = "--" /\ NewLines(2)[k].alpha = 30
        /\ \A k \in 1..Len(NewLines(1)) :
              NewLines(1)[k].linestyle = "-" /\ NewLines(1)[k].alpha = 100
        /\ ~axs[2].grid
        /\ axs[1].haslegend /\ axs[1].legend = tags
        /\ ~axs[2].haslegend

\* C6: a call whose tags, all in df and in the metadata, share one unit
\* returns the single Axes, creates no twin, and leaves on it one new line
\* and one legend entry per tag, the unit as y-label and 'Time' as x-label.
C6_OneAxes ==
    (Entered /\ AllInMetadata /\ AllInColumns /\ Cardinality(ResolvableUnits) = 1
             /\ Ended) =>
        /\ pc = "returned"
        /\ result = [kind |-> "axes", axes |-> <<1>>]
        /\ Len(axs) = 1
        /\ LabelsOf(NewLines(1)) = tags
        /\ axs[1].haslegend
        /\ axs[1].legend = LabelsOf(PrimaryAtEntry.lines) \o tags
        /\ axs[1].ylabel = unit_of(tags[1])
        /\ axs[1].xlabel = "Time"

C8_LookupFailure ==
    (Entered /\ Ended /\ (~AllInMetadata \/ ~AllInColumns)
             /\ Cardinality(ResolvableUnits) <= 3 /\ ~savefig) =>
        /\ pc = "raised"
        /\ exc \in {"KeyError", "AttributeError"}
        /\ result = NoResult
        /\ files = {}

\* C9: in a 2- or 3-unit call, once the y-labels are set and after every tag:
\* axis k is labelled with the k-th unit in first-seen order; the lines drawn
\* on axis k are exactly the processed tags of that unit, in order; the first
\* tag is on the primary axis; when the loop is over every axis has a line
\* and there are as many lines as tags.
C9_UnitAxisGrouping ==
    (axes # <<>> /\ pc # "labels") =>
        /\ Len(axes) = Cardinality(FirstSeen)
        /\ \A k \in 1..Len(axes) :
              /\ \E p \in FirstSeen :
                    /\ Cardinality({q \in FirstSeen : q < p}) = k - 1
                    /\ axs[axes[k]].ylabel = unit_of(tags[p])
              /\ LabelsOf(NewLines(axes[k])) = OfUnit(Processed, axs[axes[k]].ylabel)
              /\ i > Len(tags) => Len(NewLines(axes[k])) >= 1
        /\ i > 1 => NewLines(axes[1])[1].label = tags[1]
        /\ i > Len(tags) =>
              Len(NewLines(axes[1])) + Len(NewLines(axes[2]))
                 + (IF Len(axes) = 3 THEN Len(NewLines(axes[3])) ELSE 0) = Len(tags)

\* C9 witness: a returned 3-unit call of 4 tags, two of them on one twin axis
C9_Witness ==
    /\ pc = "returned"
    /\ Len(axes) = 3
    /\ Len(tags) = 4
    /\ Len(NewLines(axes[2])) = 2

\* the state of the figure when a tag is missing from the metadata: nothing
\* drawn, labelled or twinned
NothingRendered == axs = <<PrimaryAtEntry>> /\ axes = <<>> /\ files = {}

\* the state of the figure when tags[i] is missing from df: the earlier tags
\* are drawn, the twins and y-labels exist, no file is written
EarlierTagsRendered ==
    /\ tags[i] \notin Columns
    /\ df_reads = SubSeq(tags, 1, i)
    /\ files = {}
    /\ IF n_units = 1
       THEN Len(axs) = 1 /\ LabelsOf(NewLines(1)) = Processed
       ELSE /\ Len(axs) = n_units /\ Len(axes) = n_units
            /\ \A k \in 1..n_units :
                  /\ axs[axes[k]].ylabel = units[k]
                  /\ LabelsOf(NewLines(axes[k])) = OfUnit(Processed, units[k])

\* C10 as stated: a metadata failure comes before any rendering; a dataset
\* failure comes when its tag is reached, the earlier tags drawn, and leaves
\* no legend in the 1-, 2- and 3-unit branches alike.
C10_NoLegendAnyBranch ==
    /\ exc = "KeyError" => NothingRendered
    /\ exc = "AttributeError" =>
        /\ EarlierTagsRendered
        /\ \A k \in 1..Len(axs) : ~axs[k].haslegend

\* C10 amended: as above, but no legend only in the 2- and 3-unit branches;
\* in the 1-unit branch the legend already lists the lines of the earlier
\* tags (and is absent only when the first tag fails).
C10_FailureOrdering ==
    /\ exc = "KeyError" => NothingRendered
    /\ exc = "AttributeError" =>
        /\ EarlierTagsRendered
        /\ n_units > 1 => \A k \in 1..Len(axs) : ~axs[k].haslegend
        /\ n_units = 1 =>
              /\ axs[1].haslegend = (i > 1)
              /\ i > 1 => axs[1].legend = LabelsOf(axs[1].lines)

\* C10 witness: a 1-unit call that failed on a later tag, legend already set
C10_Witness ==
    /\ pc = "raised" /\ exc = "AttributeError"
    /\ n_units = 1 /\ i = 3
    /\ axs[1].haslegend
    /\ ax_arg = "given"

====
